---- MODULE Spec2Model ----
(***************************************************************************)
(* A model of the motion-driven target game: the App shell (App.tsx), the  *)
(* GameCanvas component (GameCanvas.tsx) with its animation-frame loop,    *)
(* target directory, frame differencing, cursor and collision resolution, *)
(* and the narrative service (geminiService.ts).                           *)
(*                                                                         *)
(* Times are integer milliseconds, lengths integer pixels.  Math.random()  *)
(* is a choice of tenths; the draws are chosen so that every product the   *)
(* code computes from them is an integer.  The particle and                *)
(* floating-text lists (presentation only, read by draw) are left out.     *)
(***************************************************************************)
EXTENDS Integers, Sequences, FiniteSets, TLC

\* ------------------------------------------------------------ constants
MOTION_THRESHOLD == 40
HIT_PIXEL_COUNT_THRESHOLD == 25
GRID_SCALE == 8
ENEMY_SPAWN_RATE_MS == 1500
ENEMY_LIFESPAN_MS == 5000
GAME_DURATION_SEC == 60
HIT_COOLDOWN_MS == 400
HIT_FLASH_MS == 100
MAX_HP == 3
VideoWidth == 640
VideoHeight == 480
\* videoWidth and videoHeight of a camera that has fallen back to a lower
\* resolution.
LowWidth == 320
LowHeight == 240

\* --------------------------------------------------------------- bounds
\* Animation frames executed since the page was loaded.
MaxTicks == 4
\* Mounts of GameCanvas (sessions) since the page was loaded.
MaxSessions == 1
\* Frames of a steady session that may find the video not ready.
MaxIdleFrames == 80
\* Cursor updates of a run of SmoothSpec, and how many of the first of them
\* may each bring another centroid (the later ones repeat the last one).
MaxSmoothFrames == 60
MaxMoves == 2

\* ---------------------------------------------------------- input sets
\* What an animation frame finds: <<the delay since the previous frame (or
\* since the page was loaded), the scene in front of the camera>>.  A frame
\* can be late by any amount (a throttled or hidden tab), so short and long
\* delays are both drawn.
TickInputs ==
  {<<200, "dark">>, <<200, "head">>, <<200, "body">>,
   <<1600, "weak">>, <<5200, "dark">>, <<60000, "dark">>}
\* The delays of the frames that find the video not ready: a short and
\* a long one.
IdleDelays == {200, 60000}
\* The frames of the sessions played to exercise the App shell and the
\* narrative service: one with motion, one that ends the session.
ShellInputs == {<<200, "head">>, <<60000, "dark">>}
\* A steady session in front of a still, dark scene: a frame every
\* SteadyPeriod milliseconds, started right at page load or 3 seconds after
\* it, every target drawn alike.
SteadyPeriod == 30
SteadyStarts == {0, 3000}
SteadyInputs == {<<SteadyPeriod, "dark">>}
SteadyDraws == {[id |-> "a", size |-> 5, x |-> 0, y |-> 0]}
\* A session of frames 400 ms apart, the hit cooldown, after the frame
\* that spawns the first target: every frame can register a hit.
HitInputs ==
  {<<1600, "dark">>, <<400, "body">>, <<400, "dark">>, <<400, "head">>}
\* A session with frames exactly the spawn rate after a spawn, and a frame
\* that both spawns a target and finds motion on it.
SpawnInputs ==
  {<<1500, "dark">>, <<100, "head">>, <<1600, "dark">>}
\* A session long enough for a fifth and a sixth target: frames that spawn
\* as fast as the rule allows, with or without motion, and frames in between.
CrowdInputs ==
  {<<1600, "dark">>, <<1600, "head">>, <<1500, "dark">>, <<200, "dark">>}
\* A session during which the camera changes its resolution: frames dark or
\* with motion at full size, or dark at the lower size.
ResizeInputs ==
  {<<200, "dark">>, <<200, "head">>, <<1600, "head">>, <<200, "low">>}
\* The sums of the active pixels of a pass (their x and y are multiples of
\* GRID_SCALE): one pixel at (288, 304), one at (288, 320), three, seven and
\* two pixels, and no active pixel at all.
CursorTotals ==
  {<<288, 304, 1>>, <<288, 320, 1>>, <<880, 928, 3>>, <<2000, 2096, 7>>,
   <<1008, 912, 2>>, <<0, 0, 0>>}
\* The four Math.random() results one spawn consumes: the id string, and
\* the draws for size, x and y in tenths (0.5 is 5).  The draws are chosen
\* so that every product the code computes from them is an integer.
SpawnDraws ==
  {[id |-> "a", size |-> 5, x |-> 0, y |-> 0],
   [id |-> "b", size |-> 0, x |-> 9, y |-> 9]}

VARIABLES
  \* App.tsx state
  gameState, stats, debrief, isLoading, requests, briefing, briefings,
  \* GameCanvas refs and state
  requestRef, score, headshots, bodyshots, enemiesDestroyed, enemiesSpawned,
  enemies, lastSpawnTime, gameStartTime, prevFrameData, cursor, timeLeft,
  \* video element and camera stream
  srcObject, readyState, gumPending, gumStale, openStreams,
  \* environment clock and history of the run
  now, ticks, sessions, log, last

appVars == <<gameState, stats, debrief, isLoading, requests, briefing, briefings>>
statVars == <<score, headshots, bodyshots, enemiesDestroyed, enemiesSpawned>>
canvasVars == <<requestRef, enemies, lastSpawnTime, gameStartTime,
                prevFrameData, cursor, timeLeft>>
videoVars == <<srcObject, readyState, gumPending, gumStale, openStreams>>
histVars == <<now, ticks, sessions, log, last>>
vars == <<appVars, statVars, canvasVars, videoVars, histVars>>

\* ------------------------------------------------------------- helpers
Max(a, b) == IF a >= b THEN a ELSE b
Abs(a) == IF a >= 0 THEN a ELSE 0 - a

RECURSIVE Gcd(_, _)
Gcd(a, b) == IF b = 0 THEN a ELSE Gcd(b, a % b)

\* A non-negative rational <<numerator, denominator>> in lowest terms.
Frac(n, d) == LET g == Gcd(n, d) IN <<n \div g, d \div g>>

\* The elements of a finite set of integers as an ascending sequence.
RECURSIVE Ascending(_)
Ascending(S) ==
  IF S = {} THEN << >>
  ELSE LET m == CHOOSE x \in S : \A y \in S : x <= y
       IN <<m>> \o Ascending(S \ {m})

RECURSIVE SumX(_)
SumX(ps) == IF ps = << >> THEN 0 ELSE Head(ps).x + SumX(Tail(ps))

RECURSIVE SumY(_)
SumY(ps) == IF ps = << >> THEN 0 ELSE Head(ps).y + SumY(Tail(ps))

NoLast == [ready |-> FALSE, remain |-> GAME_DURATION_SEC * 1000,
           fired |-> FALSE, pass |-> FALSE, from |-> "dark", scene |-> "dark",
           events |-> {}, before |-> <<0, 0, 0, 0, 0>>, cursor |-> << >>]

\* ----------------------------------------------- frames and detection
\* The analysis grid of the motion canvas: mw = width / GRID_SCALE.
GridW == VideoWidth \div GRID_SCALE
GridH == VideoHeight \div GRID_SCALE

\* Pixel indices of a block of grid cells.
Block(c0, r0, nc, nr) ==
  {r * GridW + c : c \in c0 .. (c0 + nc - 1), r \in r0 .. (r0 + nr - 1)}

\* The video frames a tick can see: a dark scene with one lit block.  The
\* scene "weak" also has two faint pixels, one whose channels sum to the
\* motion threshold exactly and one just above it.
Scenes == {"dark", "head", "body", "weak"}

\* The frames a tick can get: the scenes, and a dark frame of the camera at
\* its lower resolution.
Frames == Scenes \cup {"low"}

\* getImageData of a frame: the size of the video and of the canvas,
\* data.length, the lit pixels and their RGB value, the faint pixels with
\* theirs (every other pixel is <<0, 0, 0>>).
FrameData(scene) ==
  [width |-> IF scene = "low" THEN LowWidth ELSE VideoWidth,
   height |-> IF scene = "low" THEN LowHeight ELSE VideoHeight,
   len |-> IF scene = "low"
           THEN (LowWidth \div GRID_SCALE) * (LowHeight \div GRID_SCALE) * 4
           ELSE GridW * GridH * 4,
   rgb |-> <<255, 255, 255>>,
   lit |-> CASE scene = "head" -> Block(0, 0, 9, 3)
             [] scene = "body" -> Block(0, 8, 9, 3)
             [] scene = "weak" -> Block(0, 3, 5, 5)
             [] OTHER -> {},
   faint |-> IF scene = "weak"
             THEN {<<20 * GridW + 20, <<40, 40, 40>> >>,
                   <<20 * GridW + 22, <<41, 40, 40>> >>}
             ELSE {}]

Pixel(data, p) ==
  IF p \in data.lit THEN data.rgb
  ELSE IF \E f \in data.faint : f[1] = p
       THEN (CHOOSE f \in data.faint : f[1] = p)[2]
       ELSE <<0, 0, 0>>

\* Mutant: the difference is taken against a black frame, not the stored one.
PixelDiffFromBlack(data, prevData, p) ==
  LET c == Pixel(data, p)
  IN Abs(c[1]) + Abs(c[2]) + Abs(c[3])

\* rDiff + gDiff + bDiff of pixel p.
PixelDiff(data, prevData, p) ==
  LET c == Pixel(data, p)
      q == Pixel(prevData, p)
  IN Abs(c[1] - q[1]) + Abs(c[2] - q[2]) + Abs(c[3] - q[3])

\* Mutant: a difference equal to the threshold counts as motion.
IsMovingAtThreshold(diff) == diff >= MOTION_THRESHOLD * 3

IsMoving(diff) == diff > MOTION_THRESHOLD * 3

\* The pixels that are not black in a frame.
Coloured(data) == data.lit \cup {f[1] : f \in data.faint}

\* activePixels, in the order the loop pushes them.  The loop visits every
\* pixel; a pixel black in both frames has diff 0, so only the others are
\* enumerated.
ActivePixels(data, prevData) ==
  LET moving == Ascending({q \in Coloured(data) \cup Coloured(prevData) :
                             IsMoving(PixelDiff(data, prevData, q))})
  IN [k \in DOMAIN moving |->
        [x |-> (moving[k] % GridW) * GRID_SCALE,
         y |-> (moving[k] \div GridW) * GRID_SCALE]]

\* ActivePixels of every pair of frames <<current, previous>> of one size
\* (the loop is not reached with frames of two sizes).
MotionTable ==
  {<<c, q, IF FrameData(c).len = FrameData(q).len
           THEN ActivePixels(FrameData(c), FrameData(q))
           ELSE << >> >> : c \in Frames, q \in Frames}

Motion(scene, prevScene) ==
  (CHOOSE t \in MotionTable : t[1] = scene /\ t[2] = prevScene)[3]

\* No previous frame, or one of another length: store and exit.
NeedsBaseline(prev, data) == prev = << >> \/ FrameData(prev[1]).len # data.len

\* The cursor after the update: absent (<< >>) or <<[x, y]>>, each
\* coordinate an exact rational.
HalfSum(a, b) == Frac(a[1] * b[2] + b[1] * a[2], 2 * a[2] * b[2])

\* Mutant: without motion the cursor keeps its last position.
UpdateCursorLatching(cur, active) ==
  IF Len(active) > 0
  THEN LET n == Len(active)
           avgX == Frac(SumX(active), n)
           avgY == Frac(SumY(active), n)
       IN IF cur # << >>
          THEN <<[x |-> HalfSum(cur[1].x, avgX), y |-> HalfSum(cur[1].y, avgY)]>>
          ELSE <<[x |-> avgX, y |-> avgY]>>
  ELSE cur

UpdateCursor(cur, active) ==
  IF Len(active) > 0
  THEN LET n == Len(active)
           avgX == Frac(SumX(active), n)
           avgY == Frac(SumY(active), n)
       IN IF cur # << >>
          THEN <<[x |-> HalfSum(cur[1].x, avgX), y |-> HalfSum(cur[1].y, avgY)]>>
          ELSE <<[x |-> avgX, y |-> avgY]>>
  ELSE << >>

\* The same update on the doubles the browser computes with.  A double
\* between 256 and 512 is m * 2^-44 with 2^52 <= m < 2^53; m is written in two
\* limbs, <<m \div Limb, m % Limb>>.
Limb == 2 ^ 26
Carry(hi, lo) == <<hi + lo \div Limb, lo % Limb>>
IsEven(m) == m[2] % 2 = 0
Succ(m) == Carry(m[1], m[2] + 1)

\* total / n, an integer by an integer: the double nearest to the quotient,
\* a tie going to the even one.  total * 2^44 is (total * 2^18) * Limb.
Quotient(total, n) ==
  LET hi == total * 2 ^ 18
      r == (hi % n) * Limb
      m == <<hi \div n, r \div n>>
      rest == r % n
  IN  IF 2 * rest > n \/ (2 * rest = n /\ ~IsEven(m)) THEN Succ(m) ELSE m

\* The double nearest to s / 2, a tie going to the even one.
HalfRounded(s) ==
  LET h == <<s[1] \div 2, (s[1] % 2) * (Limb \div 2) + s[2] \div 2>>
  IN  IF s[2] % 2 = 0 \/ IsEven(h) THEN h ELSE Succ(h)

\* Mutant: a smoothFactor of 0, the cursor jumps to the centroid.
SmoothFactorZero(q, p) == p

\* q * smoothFactor + p * (1 - smoothFactor) with smoothFactor = 0.5: both
\* products are exact (a division by 2), their sum is rounded once.
Smooth(q, p) == HalfRounded(Carry(q[1] + p[1], q[2] + p[2]))

\* totals = <<totalX, totalY, activePixels.length>>.
UpdateCursorDoubles(cur, totals) ==
  IF totals[3] > 0
  THEN LET avgX == Quotient(totals[1], totals[3])
           avgY == Quotient(totals[2], totals[3])
       IN IF cur # << >>
          THEN <<[x |-> Smooth(cur[1].x, avgX), y |-> Smooth(cur[1].y, avgY)]>>
          ELSE <<[x |-> avgX, y |-> avgY]>>
  ELSE << >>

\* Mutant: the cooldown confused with the 100 ms hit flash.
CooledDownFlash(e, timestamp) == ~(timestamp - e.lastHitTime < HIT_FLASH_MS)

\* ------------------------------------------------------------ collision
CooledDown(e, timestamp) == ~(timestamp - e.lastHitTime < HIT_COOLDOWN_MS)

Inside(e, p) ==
  /\ p.x >= e.x /\ p.x <= e.x + e.width
  /\ p.y >= e.y /\ p.y <= e.y + e.height

InRect(e, active) == LET hit(p) == Inside(e, p) IN SelectSeq(active, hit)

\* Mutant: the threshold itself confirms a hit.
HitConfirmedAtThreshold(hitsInRect) == hitsInRect >= HIT_PIXEL_COUNT_THRESHOLD

HitConfirmed(hitsInRect) == hitsInRect > HIT_PIXEL_COUNT_THRESHOLD

\* Mutant: the boundary of the head zone counts as head.
IsHeadshotInclusive(e, hitYSum, hitsInRect) ==
  4 * hitYSum <= hitsInRect * (4 * e.y + e.height)

\* avgY < headThreshold, with avgY = hitYSum / hitsInRect and
\* headThreshold = enemy.y + enemy.height * 0.25, cleared of fractions.
IsHeadshot(e, hitYSum, hitsInRect) ==
  4 * hitYSum < hitsInRect * (4 * e.y + e.height)

\* Mutant: a headshot deals one point of damage, like a bodyshot.
HeadshotHpDecrement(e) == e.hp - 1

HeadshotHp(e) == 0

\* Mutant: a bodyshot deals two points of damage.
BodyshotHpDouble(e) == e.hp - 2

BodyshotHp(e) == e.hp - 1

\* Mutant: a bodyshot costs a point.
ScoreForPenalty(kind) == IF kind = "head" THEN 3 ELSE 0 - 1

\* scoreRef.current += 3 (headshot), scoreRef.current += 1 (bodyshot)
ScoreFor(kind) == IF kind = "head" THEN 3 ELSE 1

\* What the collision loop does to one enemy: "none", "head" or "body".
HitKind(e, active, timestamp) ==
  IF ~CooledDown(e, timestamp) THEN "none"
  ELSE LET inside == InRect(e, active)
       IN IF ~HitConfirmed(Len(inside)) THEN "none"
          ELSE IF IsHeadshot(e, SumY(inside), Len(inside))
               THEN "head" ELSE "body"

HitEnemy(e, kind, timestamp) ==
  IF kind = "none" THEN e
  ELSE [e EXCEPT !.hp = IF kind = "head" THEN HeadshotHp(e) ELSE BodyshotHp(e),
                 !.lastHitTime = timestamp,
                 !.isHit = TRUE]

\* Mutant: a target at exactly 0 hp is not counted as destroyed.
DestroyedBelowZero(e) == e.hp < 0

Destroyed(e) == e.hp <= 0

\* The collision loop over the enemies: for each, the enemy before, what
\* happened to it and the enemy after.
RECURSIVE Resolve(_, _, _)
Resolve(es, active, timestamp) ==
  IF es = << >> THEN << >>
  ELSE LET e == Head(es)
           k == HitKind(e, active, timestamp)
       IN <<[was |-> e, kind |-> k, is |-> HitEnemy(e, k, timestamp)]>>
            \o Resolve(Tail(es), active, timestamp)

\* ------------------------------------------------------ target directory
\* Mutant: a frame exactly the spawn rate after the last spawn spawns.
ShouldSpawnAtRate(timestamp, lastSpawn) ==
  timestamp - lastSpawn >= ENEMY_SPAWN_RATE_MS

ShouldSpawn(timestamp, lastSpawn) == timestamp - lastSpawn > ENEMY_SPAWN_RATE_MS

\* size = 80 + Math.random() * 40, the draw r in tenths
SpawnSize(r) == 80 + (r * 40) \div 10
\* Math.random() * (width - size) and Math.random() * (height - size)
SpawnX(r, width, size) == (r * (width - size)) \div 10
SpawnY(r, height, size) == (r * (height - size)) \div 10
\* height: size * 1.6
HumanoidHeight(size) == (size * 16) \div 10

NewEnemy(draw, timestamp, width, height, uid) ==
  LET size == SpawnSize(draw.size)
  IN [id |-> draw.id,
      x |-> SpawnX(draw.x, width, size),
      y |-> SpawnY(draw.y, height, size),
      width |-> size,
      height |-> HumanoidHeight(size),
      hp |-> MAX_HP,
      maxHp |-> MAX_HP,
      spawnTime |-> timestamp,
      lastHitTime |-> 0,
      isHit |-> FALSE,
      uid |-> uid]

ClearFlash(e, timestamp) ==
  IF e.isHit /\ timestamp - e.lastHitTime > HIT_FLASH_MS
  THEN [e EXCEPT !.isHit = FALSE] ELSE e

\* Mutant: a target at exactly 0 hp is kept.
IsDeadBelowZero(e) == e.hp < 0

IsDead(e) == e.hp <= 0

\* Mutant: only a target that was hit at least once can expire.
IsExpiredOnlyIfHit(e, timestamp) ==
  e.lastHitTime > 0 /\ (timestamp - e.spawnTime) > ENEMY_LIFESPAN_MS

IsExpired(e, timestamp) == (timestamp - e.spawnTime) > ENEMY_LIFESPAN_MS

\* Mutant: the filter removes the dead only.
KeepsUnlessDead(e, timestamp) == ~IsDead(e)

Keeps(e, timestamp) == ~IsDead(e) /\ ~IsExpired(e, timestamp)

\* remain, in milliseconds: Math.max(0, GAME_DURATION_SEC - elapsed).
Remain(timestamp, start) == Max(0, GAME_DURATION_SEC * 1000 - (timestamp - start))
\* Mutant: the callback is guarded by remain < 0, which max(0, ...) never is.
GameOverFiresStrict(remain) == remain < 0

\* if (remain <= 0) onGameOver(...)
GameOverFires(remain) == remain <= 0
\* the value updateGameState returns
IsRunning(remain) == ~(remain <= 0)

\* ------------------------------------------------------- initial state
NoDebrief == [kind |-> "empty", of |-> << >>]
\* useState("Initializing Neural Link...")
InitialBriefing == [kind |-> "initial"]

\* The refs and state of a freshly mounted GameCanvas.
FreshCanvas ==
  /\ score' = 0 /\ headshots' = 0 /\ bodyshots' = 0
  /\ enemiesDestroyed' = 0 /\ enemiesSpawned' = 0
  /\ enemies' = << >> /\ lastSpawnTime' = 0 /\ gameStartTime' = 0
  /\ prevFrameData' = << >> /\ cursor' = << >>
  /\ timeLeft' = GAME_DURATION_SEC * 1000

InitAt(t) ==
  /\ gameState = "MENU" /\ stats = << >> /\ debrief = NoDebrief
  /\ isLoading = FALSE /\ requests = {}
  /\ briefing = InitialBriefing /\ briefings = 1
  /\ requestRef = FALSE
  /\ score = 0 /\ headshots = 0 /\ bodyshots = 0
  /\ enemiesDestroyed = 0 /\ enemiesSpawned = 0
  /\ enemies = << >> /\ lastSpawnTime = 0 /\ gameStartTime = 0
  /\ prevFrameData = << >> /\ cursor = << >>
  /\ timeLeft = GAME_DURATION_SEC * 1000
  /\ srcObject = FALSE /\ readyState = 0
  /\ gumPending = FALSE /\ gumStale = 0 /\ openStreams = 0
  /\ now = t /\ ticks = 0 /\ sessions = << >> /\ log = << >> /\ last = NoLast

Init == InitAt(0)

\* The session being played, or the last one played.
Cur == sessions[Len(sessions)]

\* ----------------------------------------------------------- App shell
\* INITIATE LINK: handleStartGame, then GameCanvas mounts: the video effect
\* calls getUserMedia and the loop effect requests the first frame.
StartGameUpTo(limit) ==
  /\ gameState = "MENU"
  /\ Len(sessions) < limit
  /\ gameState' = "PLAYING"
  /\ FreshCanvas
  /\ requestRef' = TRUE
  /\ gumPending' = TRUE
  /\ sessions' = Append(sessions, [calls |-> 0, ended |-> "no"])
  /\ log' = << >>
  /\ last' = NoLast
  /\ UNCHANGED <<stats, debrief, isLoading, requests, briefing, briefings,
                 srcObject, readyState, gumStale, openStreams, now, ticks>>

StartGame == StartGameUpTo(MaxSessions)

\* GameCanvas unmounts: the loop effect's cleanup cancels the pending frame,
\* the video effect's cleanup stops the tracks of the stream it finds at
\* videoRef.current.srcObject.  Whether videoRef.current still holds the
\* element when the cleanup runs depends on the React version of the build
\* (from React 17 on an unmounting element's ref is cleared before the
\* cleanups of useEffect run), so both outcomes are drawn.  A getUserMedia
\* call still in flight outlives the component.
Unmount ==
  /\ requestRef' = FALSE
  /\ \E attached \in BOOLEAN :
       openStreams' = IF srcObject /\ attached
                      THEN openStreams - 1 ELSE openStreams
  /\ srcObject' = FALSE
  /\ readyState' = 0
  /\ gumPending' = FALSE
  /\ gumStale' = IF gumPending THEN gumStale + 1 ELSE gumStale

\* ABORT: setGameState(MENU).  GameCanvas unmounts and its refs are gone
\* with it: the model holds the values a fresh mount starts from.
Abort ==
  /\ gameState = "PLAYING"
  /\ gameState' = "MENU"
  /\ Unmount
  /\ FreshCanvas
  /\ sessions' = [sessions EXCEPT ![Len(sessions)].ended =
                    IF @ = "no" THEN "abort" ELSE @]
  /\ log' = << >>
  /\ last' = NoLast
  /\ UNCHANGED <<stats, debrief, isLoading, requests, briefing, briefings,
                 now, ticks>>

\* REBOOT SYSTEM: handleRestart, which also asks for a new briefing.
Restart ==
  /\ gameState = "GAME_OVER"
  /\ gameState' = "MENU"
  /\ stats' = << >>
  /\ debrief' = NoDebrief
  /\ briefings' = briefings + 1
  /\ UNCHANGED <<isLoading, requests, briefing, statVars, canvasVars,
                 videoVars, histVars>>

\* ------------------------------------------------- the narrative service
\* Mutant: the error of a failed call is not caught.
generateDebriefUncaught(finalStats, failed) ==
  IF failed
  THEN [settled |-> "rejected"]
  ELSE [settled |-> "resolved", text |-> [kind |-> "generated", of |-> finalStats]]

\* generateDebrief(stats): the promise it returns.  A call that fails
\* (generateContent throws, or the response has no text) ends in the catch,
\* which returns the fixed string.
generateDebrief(finalStats, failed) ==
  IF failed
  THEN [settled |-> "resolved", text |-> [kind |-> "fallback", of |-> << >>]]
  ELSE [settled |-> "resolved", text |-> [kind |-> "generated", of |-> finalStats]]

\* generateBriefing(): the promise it returns.
generateBriefing(failed) ==
  IF failed
  THEN [settled |-> "resolved", text |-> [kind |-> "fallback"]]
  ELSE [settled |-> "resolved", text |-> [kind |-> "generated"]]

\* generateDebrief settles and handleGameOver resumes after its await:
\* setDebrief(text); setIsLoading(false).  A rejection would end the handler
\* at the await.
DebriefDone ==
  \E r \in requests, failed \in BOOLEAN :
    \E res \in {generateDebrief(r[2], failed)} :
      /\ requests' = requests \ {r}
      /\ IF res.settled = "resolved"
         THEN debrief' = res.text /\ isLoading' = FALSE
         ELSE UNCHANGED <<debrief, isLoading>>
      /\ UNCHANGED <<gameState, stats, briefing, briefings, statVars, canvasVars,
                     videoVars, histVars>>

\* generateBriefing settles: initBriefing resumes with setBriefing(text), or
\* the then(setBriefing) of handleRestart runs.
BriefingDone ==
  /\ briefings > 0
  /\ \E failed \in BOOLEAN :
       \E res \in {generateBriefing(failed)} :
         /\ briefings' = briefings - 1
         /\ IF res.settled = "resolved"
            THEN briefing' = res.text
            ELSE UNCHANGED briefing
  /\ UNCHANGED <<gameState, stats, debrief, isLoading, requests, statVars,
                 canvasVars, videoVars, histVars>>

\* ----------------------------------------------------------- the camera
\* getUserMedia of the mounted component resolves: the stream is attached.
GumResolve ==
  /\ gumPending
  /\ gumPending' = FALSE
  /\ srcObject' = TRUE
  /\ openStreams' = openStreams + 1
  /\ UNCHANGED <<appVars, statVars, canvasVars, readyState, gumStale, histVars>>

\* getUserMedia of the mounted component rejects: console.error and alert.
GumReject ==
  /\ gumPending
  /\ gumPending' = FALSE
  /\ UNCHANGED <<appVars, statVars, canvasVars, srcObject, readyState,
                 gumStale, openStreams, histVars>>

\* getUserMedia of an unmounted component settles: videoRef.current is null,
\* a delivered stream is attached to nothing.
GumStaleSettle ==
  /\ gumStale > 0
  /\ gumStale' = gumStale - 1
  /\ \E delivered \in BOOLEAN :
       openStreams' = IF delivered THEN openStreams + 1 ELSE openStreams
  /\ UNCHANGED <<appVars, statVars, canvasVars, srcObject, readyState,
                 gumPending, histVars>>

\* The video element reaches HAVE_ENOUGH_DATA.
VideoReady ==
  /\ srcObject /\ readyState # 4
  /\ readyState' = 4
  /\ UNCHANGED <<appVars, statVars, canvasVars, srcObject, gumPending,
                 gumStale, openStreams, histVars>>

\* ------------------------------------------------------- the game loop
\* The draws a tick consumes: none when it does not spawn.
SpawnChoices(draws, timestamp) ==
  IF ShouldSpawn(timestamp, lastSpawnTime)
  THEN draws
  ELSE {CHOOSE d \in draws : TRUE}

Counters == <<score, headshots, bodyshots, enemiesSpawned, enemiesDestroyed>>

\* gameLoop(timestamp) while the video is not ready (or there is no canvas):
\* only the start time is latched and the next frame requested.
TickIdle(timestamp) ==
  \E start \in {IF gameStartTime = 0 THEN timestamp ELSE gameStartTime} :
     /\ gameStartTime' = start
     /\ requestRef' = TRUE
     /\ last' = [NoLast EXCEPT !.remain = Remain(timestamp, start),
                               !.before = Counters,
                               !.cursor = cursor]
     /\ UNCHANGED <<appVars, statVars, enemies, lastSpawnTime, prevFrameData,
                    cursor, timeLeft, videoVars, sessions, log>>

\* updateGameState(timestamp, width, height): the enemies after spawning,
\* clearing the hit flashes and removing the dead and the expired.
AdvanceEnemies(es, timestamp, lastSpawn, choice, width, height, uid) ==
  LET e1 == IF ShouldSpawn(timestamp, lastSpawn)
            THEN Append(es, NewEnemy(choice, timestamp, width, height, uid))
            ELSE es
      e2 == [i \in DOMAIN e1 |-> ClearFlash(e1[i], timestamp)]
      keep(e) == Keeps(e, timestamp)
  IN SelectSeq(e2, keep)

\* One pass of gameLoop with the video ready: updateGameState, then
\* detectMotionAndCollisions; every value the pass leaves behind.
Pass(timestamp, choice, scene) ==
  LET start == IF gameStartTime = 0 THEN timestamp ELSE gameStartTime
      \* updateGameState
      spawn == ShouldSpawn(timestamp, lastSpawnTime)
      spawned == IF spawn THEN enemiesSpawned + 1 ELSE enemiesSpawned
      e3 == AdvanceEnemies(enemies, timestamp, lastSpawnTime, choice,
                           FrameData(scene).width, FrameData(scene).height,
                           spawned)
      remain == Remain(timestamp, start)
      \* detectMotionAndCollisions
      baseline == NeedsBaseline(prevFrameData, FrameData(scene))
      active == IF baseline THEN << >> ELSE Motion(scene, prevFrameData[1])
      res == IF baseline
             THEN [i \in DOMAIN e3 |-> [was |-> e3[i], kind |-> "none", is |-> e3[i]]]
             ELSE Resolve(e3, active, timestamp)
      hit == {i \in DOMAIN res : res[i].kind # "none"}
      \* history
      log1 == IF spawn
              THEN Append(log, [id |-> choice.id, hits |-> << >>, kills |-> 0])
              ELSE log
  IN [start |-> start,
      spawn |-> spawn,
      spawned |-> spawned,
      remain |-> remain,
      fires |-> GameOverFires(remain),
      running |-> IsRunning(remain),
      handed |-> <<score, headshots, bodyshots, spawned, enemiesDestroyed>>,
      baseline |-> baseline,
      cursor |-> IF baseline THEN cursor ELSE UpdateCursor(cursor, active),
      enemies |-> [i \in DOMAIN res |-> res[i].is],
      heads |-> Cardinality({i \in hit : res[i].kind = "head"}),
      bodies |-> Cardinality({i \in hit : res[i].kind = "body"}),
      kills |-> Cardinality({i \in hit : Destroyed(res[i].is)}),
      events |-> {[uid |-> res[i].was.uid, kind |-> res[i].kind,
                   hp |-> res[i].was.hp] : i \in hit},
      log |-> [u \in DOMAIN log1 |->
                 IF \E i \in hit : res[i].was.uid = u
                 THEN LET i == CHOOSE j \in hit : res[j].was.uid = u
                      IN [log1[u] EXCEPT
                            !.hits = Append(@, [t |-> timestamp, kind |-> res[i].kind]),
                            !.kills = IF Destroyed(res[i].is) THEN @ + 1 ELSE @]
                 ELSE log1[u]]]

\* gameLoop(timestamp) with the video ready.
TickReady(timestamp, choice, scene) ==
  \E o \in {Pass(timestamp, choice, scene)} :
     /\ gameStartTime' = o.start
     /\ enemiesSpawned' = o.spawned
     /\ lastSpawnTime' = IF o.spawn THEN timestamp ELSE lastSpawnTime
     /\ timeLeft' = o.remain
     /\ prevFrameData' = <<scene>>
     /\ cursor' = o.cursor
     /\ enemies' = o.enemies
     /\ score' = score + o.heads * ScoreFor("head") + o.bodies * ScoreFor("body")
     /\ headshots' = headshots + o.heads
     /\ bodyshots' = bodyshots + o.bodies
     /\ enemiesDestroyed' = enemiesDestroyed + o.kills
     /\ IF o.fires
        THEN \* handleGameOver(finalStats) up to its await, then the render
             \* that replaces GameCanvas by the GAME_OVER view
             /\ stats' = <<o.handed>>
             /\ gameState' = "GAME_OVER"
             /\ isLoading' = TRUE
             /\ requests' = requests \cup {<<Len(sessions), o.handed>>}
             /\ Unmount
             /\ UNCHANGED <<debrief, briefing, briefings>>
        ELSE /\ requestRef' = o.running
             /\ UNCHANGED <<appVars, videoVars>>
     /\ sessions' = [sessions EXCEPT
                       ![Len(sessions)].calls = IF o.fires THEN @ + 1 ELSE @,
                       ![Len(sessions)].ended =
                          IF o.fires \/ ~o.running THEN "expiry" ELSE @]
     /\ log' = o.log
     /\ last' = [ready |-> TRUE, remain |-> o.remain, fired |-> o.fires,
                 pass |-> ~o.baseline,
                 from |-> IF o.baseline THEN scene ELSE prevFrameData[1],
                 scene |-> scene,
                 events |-> o.events,
                 before |-> Counters,
                 cursor |-> cursor]

\* The animation frame requested by requestAnimationFrame(gameLoop) runs,
\* with its inputs drawn from the given sets, up to a number of frames.
TickOn(inputs, delays, draws, limit) ==
  /\ gameState = "PLAYING"
  /\ requestRef
  /\ ticks < limit
  /\ ticks' = ticks + 1
  /\ IF readyState = 4
     THEN \E in \in inputs :
            /\ now' = now + in[1]
            /\ \E choice \in SpawnChoices(draws, now + in[1]) :
                 TickReady(now + in[1], choice, in[2])
     ELSE \E d \in delays :
            /\ now' = now + d
            /\ TickIdle(now + d)

Tick == TickOn(TickInputs, IdleDelays, SpawnDraws, MaxTicks)

\* The session of the game; the briefing requests stay in flight (their
\* completion writes `briefing` alone, which no step of the game reads).
Next ==
  \/ StartGame
  \/ Abort
  \/ Restart
  \/ DebriefDone
  \/ GumResolve
  \/ GumReject
  \/ GumStaleSettle
  \/ VideoReady
  \/ Tick

Spec == Init /\ [][Next]_vars

\* The App shell with the narrative service: every handler, the sessions
\* played on ShellInputs.  A call of the service settles in the end (the
\* promise of generateContent resolves or rejects), so each completion is
\* weakly fair.
ShellTick == TickOn(ShellInputs, IdleDelays, SpawnDraws, MaxTicks)

ShellNext ==
  \/ StartGame
  \/ Abort
  \/ Restart
  \/ DebriefDone
  \/ BriefingDone
  \/ GumResolve
  \/ GumReject
  \/ GumStaleSettle
  \/ VideoReady
  \/ ShellTick

ShellSpec ==
  Init /\ [][ShellNext]_vars /\ WF_vars(DebriefDone) /\ WF_vars(BriefingDone)

\* One steady session from INITIATE LINK to the end of its 60 seconds: the
\* camera is delivered and becomes ready at any frame up to MaxIdleFrames,
\* and every frame shows the same dark scene, so no pass finds motion.
SteadyTick ==
  /\ readyState = 4 \/ ticks < MaxIdleFrames
  /\ TickOn(SteadyInputs, {SteadyPeriod}, SteadyDraws,
            MaxIdleFrames + (GAME_DURATION_SEC * 1000) \div SteadyPeriod + 2)

SteadyInit == \E t \in SteadyStarts : InitAt(t)

SteadyNext ==
  \/ StartGame
  \/ GumResolve
  \/ VideoReady
  \/ SteadyTick

SteadySpec == SteadyInit /\ [][SteadyNext]_vars

\* The cursor block of detectMotionAndCollisions alone, on doubles: a run of
\* updates from the absent cursor, the first MaxMoves of them with any of
\* the sums, the later ones with the sums of the update before.
CursorFrame ==
  /\ ticks < MaxSmoothFrames
  /\ \E totals \in (IF ticks < MaxMoves THEN CursorTotals ELSE {last.totals}) :
       /\ cursor' = UpdateCursorDoubles(cursor, totals)
       /\ last' = [cursor |-> cursor, totals |-> totals]
  /\ ticks' = ticks + 1
  /\ UNCHANGED <<appVars, statVars, videoVars, now, sessions, log>>
  /\ UNCHANGED <<requestRef, enemies, lastSpawnTime, gameStartTime,
                 prevFrameData, timeLeft>>

\* A session played to its end, REBOOT SYSTEM and one more session, every
\* target drawn alike; the debrief requests complete at any time.
RebootStart == StartGameUpTo(MaxSessions + 1)

RebootTick == TickOn(ShellInputs, IdleDelays, SteadyDraws, MaxTicks)

RebootNext ==
  \/ RebootStart
  \/ Restart
  \/ DebriefDone
  \/ GumResolve
  \/ VideoReady
  \/ RebootTick

RebootSpec == Init /\ [][RebootNext]_vars

\* One session played at the pace of the hit cooldown.
HitTick == TickOn(HitInputs, IdleDelays, SpawnDraws, MaxTicks)

HitNext ==
  \/ StartGame
  \/ Abort
  \/ GumResolve
  \/ VideoReady
  \/ HitTick

HitSpec == Init /\ [][HitNext]_vars

\* One session with frames at the spawn rate.
SpawnTick == TickOn(SpawnInputs, IdleDelays, SpawnDraws, MaxTicks)

SpawnNext ==
  \/ StartGame
  \/ Abort
  \/ GumResolve
  \/ VideoReady
  \/ SpawnTick

SpawnSpec == Init /\ [][SpawnNext]_vars

\* One session of up to MaxTicks + 2 frames, every target drawn alike.
CrowdTick == TickOn(CrowdInputs, IdleDelays, SteadyDraws, MaxTicks + 2)

CrowdNext ==
  \/ StartGame
  \/ Abort
  \/ GumResolve
  \/ VideoReady
  \/ CrowdTick

CrowdSpec == Init /\ [][CrowdNext]_vars

\* One session during which the camera may change its resolution.
ResizeTick == TickOn(ResizeInputs, IdleDelays, SpawnDraws, MaxTicks)

ResizeNext ==
  \/ StartGame
  \/ GumResolve
  \/ VideoReady
  \/ ResizeTick

ResizeSpec == Init /\ [][ResizeNext]_vars

SmoothNext == CursorFrame

SmoothSpec == Init /\ [][SmoothNext]_vars

\* ---------------------------------------------------------------- claims
\* The live enemy the history knows as u (a target stays in the list until
\* the advance of the next tick).
Live(u) == {i \in DOMAIN enemies : enemies[i].uid = u}

\* The active pixels of the last tick that ran a collision pass.
LastActive == IF last.pass THEN Motion(prevFrameData[1], last.from) ELSE << >>

\* The cells of the whole grid whose channel differences between two scenes
\* sum to more than 120, at their full-resolution coordinates.
ChangedCells ==
  {<<c, q, {[x |-> (i % GridW) * GRID_SCALE, y |-> (i \div GridW) * GRID_SCALE] :
              i \in {j \in 0 .. (GridW * GridH - 1) :
                       LET a == Pixel(FrameData(c), j)
                           b == Pixel(FrameData(q), j)
                       IN Abs(a[1] - b[1]) + Abs(a[2] - b[2]) + Abs(a[3] - b[3]) > 120}}>> :
     c \in Scenes, q \in Scenes}

Changed(scene, prevScene) ==
  (CHOOSE t \in ChangedCells : t[1] = scene /\ t[2] = prevScene)[3]


HeadEvents == {ev \in last.events : ev.kind = "head"}
BodyEvents == {ev \in last.events : ev.kind = "body"}

\* The identities of the targets of a list.
Uids(es) == {es[i].uid : i \in DOMAIN es}

\* The hit events of the last pass that brought their target to hp <= 0.
KillEvents ==
  {ev \in last.events : \E i \in Live(ev.uid) : enemies[i].hp <= 0}

\* A step that is one run of gameLoop with the video ready / not ready.
ReadyTick == ticks' = ticks + 1 /\ readyState = 4
IdleTick == ticks' = ticks + 1 /\ readyState # 4

C2_NoPassOnFinalTick ==
  (last.ready /\ last.remain = 0) =>
    /\ ~last.pass
    /\ stats # << >> => stats[1] = Counters

\* C3: on a tick at which remaining = max(0, duration - elapsed) is 0 the
\* game-over callback fires and no next tick is scheduled.
C3_EndsWhenRemainingIsZero ==
  last.remain = 0 => (last.fired /\ ~requestRef)

\* C4: every target of the live set has 0 <= hp <= maxHp = 3.
C4_HpInRange ==
  \A i \in DOMAIN enemies :
    /\ enemies[i].maxHp = 3
    /\ 0 <= enemies[i].hp /\ enemies[i].hp <= enemies[i].maxHp

\* A target killed by a headshot after a bodyshot is still in the list, at 0.
C4_Witness ==
  \E i \in DOMAIN enemies :
    /\ enemies[i].hp = 0
    /\ Len(log[enemies[i].uid].hits) = 2

\* C5: two hits registered on the same target are at least HIT_COOLDOWN_MS
\* (400 ms) apart; in particular one collision pass hits a target at most once.
C5_HitsAreCooledDown ==
  \A u \in DOMAIN log :
    \A k \in 1 .. (Len(log[u].hits) - 1) :
      log[u].hits[k + 1].t - log[u].hits[k].t >= 400

\* A target hit twice, the second hit exactly 400 ms after the first: two
\* frames later, the frame in between falling inside the cooldown.
C5_Witness ==
  \E u \in DOMAIN log :
    /\ Len(log[u].hits) = 2
    /\ log[u].hits[2].t - log[u].hits[1].t = 400
    /\ ticks = 4

\* C6: a headshot leaves its target at hp 0 whatever its hp was, adds 3 to the
\* score and 1 to headshots for each target it hits, and the target's kill is
\* counted in enemiesDestroyed exactly once.
C6_HeadshotKillsOnce ==
  /\ \A ev \in HeadEvents :
       /\ \A i \in Live(ev.uid) : enemies[i].hp = 0
       /\ Live(ev.uid) # {}
  /\ \A u \in DOMAIN log :
       (\E k \in DOMAIN log[u].hits : log[u].hits[k].kind = "head") =>
          log[u].kills = 1
  /\ score = last.before[1] + 3 * Cardinality(HeadEvents) + Cardinality(BodyEvents)
  /\ headshots = last.before[2] + Cardinality(HeadEvents)

\* A headshot on a target that a bodyshot had brought down to hp 2.
C6_Witness ==
  \E ev \in HeadEvents : ev.hp = 2 /\ enemiesDestroyed = 1 /\ score = 4

\* C7: a confirmed hit whose mean y equals ty + height * 0.25 exactly is a
\* bodyshot (hp - 1); a headshot's mean y is strictly below that threshold.
C7_BoundaryIsBody ==
  \A ev \in last.events :
    \A i \in Live(ev.uid) :
      LET e == enemies[i]
          inside == InRect(e, LastActive)
          sumY4 == 4 * SumY(inside)
          bound == Len(inside) * (4 * e.y + e.height)
      IN /\ sumY4 = bound => (ev.kind = "body" /\ e.hp = ev.hp - 1)
         /\ ev.kind = "head" => sumY4 < bound
         /\ ev.kind = "body" => sumY4 >= bound

C7_Witness ==
  \E ev \in last.events :
    \E i \in Live(ev.uid) :
      LET e == enemies[i]
          inside == InRect(e, LastActive)
      IN /\ 4 * SumY(inside) = Len(inside) * (4 * e.y + e.height)
         /\ ev.kind = "body"
         /\ score = last.before[1] + 1

\* C8: a hit is confirmed on a tick only if more than 25 of that tick's active
\* cells lie in the target's box; a target never hit keeps hp 3.
C8_HitNeedsMoreThan25 ==
  /\ \A ev \in last.events :
       \A i \in Live(ev.uid) : Len(InRect(enemies[i], LastActive)) > 25
  /\ \A i \in DOMAIN enemies :
       log[enemies[i].uid].hits = << >> => enemies[i].hp = 3

\* A cooled-down target with 25 active cells in its box, not hit.
C8_Witness ==
  /\ last.pass
  /\ \E i \in DOMAIN enemies :
       /\ Len(InRect(enemies[i], LastActive)) = 25
       /\ now - enemies[i].lastHitTime >= 400
       /\ enemies[i].hp = 3
       /\ last.events = {}

\* C9: every spawned target lies fully inside the bounds of the advance.
C9_SpawnInsideBounds ==
  \A i \in DOMAIN enemies :
    /\ 0 <= enemies[i].x /\ enemies[i].x + enemies[i].width <= VideoWidth
    /\ 0 <= enemies[i].y /\ enemies[i].y + enemies[i].height <= VideoHeight

\* C10: no two spawns of a session assign the same id.
C10_IdsUnique ==
  \A u, v \in DOMAIN log : u # v => log[u].id # log[v].id

\* C11: after an advance at time t no target older than LIFESPAN_MS (5000)
\* and no target that had hp <= 0 before it is in the live set, hit or not;
\* the counters move only by the hits of the tick's collision pass, which are
\* all on targets that survived the advance, so an expiry changes none of
\* score, headshots, bodyshots, enemiesDestroyed.
C11_RemovedOnAdvance ==
  [][ReadyTick =>
       /\ \A i \in DOMAIN enemies :
            (now' - enemies[i].spawnTime > 5000 \/ enemies[i].hp <= 0)
              => enemies[i].uid \notin Uids(enemies')
       /\ \A ev \in last'.events : ev.uid \in Uids(enemies')
       /\ score' = score + 3 * Cardinality(HeadEvents') + Cardinality(BodyEvents')
       /\ headshots' = headshots + Cardinality(HeadEvents')
       /\ bodyshots' = bodyshots + Cardinality(BodyEvents')
       /\ enemiesDestroyed' = enemiesDestroyed + Cardinality(KillEvents')
    ]_vars

\* A target that was never hit is gone from the live set of a session that
\* is still running: it was removed for its age alone, and the counters are
\* all zero.
C11_Witness ==
  /\ gameState = "PLAYING" /\ requestRef
  /\ \E u \in DOMAIN log : log[u].hits = << >> /\ Live(u) = {}
  /\ score = 0 /\ headshots = 0 /\ bodyshots = 0 /\ enemiesDestroyed = 0

\* C12: after a cursor update with an empty list of active cells the cursor
\* is absent, whatever it was before.
C12_NoMotionNoCursor ==
  (last.pass /\ LastActive = << >>) => cursor = << >>

\* A cursor that was present is absent after a pass that found no motion.
C12_Witness ==
  /\ last.pass /\ LastActive = << >>
  /\ last.cursor # << >>
  /\ cursor = << >>

\* C14: a pass over a frame identical to the stored one finds no active
\* cell (and so registers no hit and leaves no cursor); the first pass, with
\* no stored frame, stores the frame it sees and reports nothing: no hit, the
\* counters and the cursor as they were.
C14_StaticSceneNoMotion ==
  /\ (last.pass /\ last.scene = last.from) =>
        /\ Motion(last.scene, last.from) = << >>
        /\ last.events = {}
        /\ cursor = << >>
  /\ (last.ready /\ ~last.pass) =>
        /\ prevFrameData = <<last.scene>>
        /\ last.events = {}
        /\ cursor = last.cursor
        /\ <<score, headshots, bodyshots, enemiesDestroyed>> =
             <<last.before[1], last.before[2], last.before[3], last.before[5]>>

\* A static scene with a lit block inside the box of a live, cooled-down
\* target: the pass reports nothing and the target keeps its hp.
C14_Witness ==
  /\ last.pass /\ last.scene = "head" /\ last.from = "head"
  /\ \E i \in DOMAIN enemies :
       /\ enemies[i].x = 0 /\ enemies[i].y = 0 /\ enemies[i].hp = 3
       /\ now - enemies[i].lastHitTime >= 400

\* C15: the active cells of a pass are exactly the cells whose channel
\* differences against the frame of the previous pass sum to more than 120,
\* each once, at ((i mod gridWidth) * 8, floor(i / gridWidth) * 8); after
\* every pass the stored frame is the frame just processed; a frame that
\* differs from the previous one by one lit block yields that block.
C15_ExactOneStepDiff ==
  /\ last.ready => prevFrameData = <<last.scene>>
  /\ last.pass =>
        /\ {LastActive[k] : k \in DOMAIN LastActive} = Changed(last.scene, last.from)
        /\ Len(LastActive) = Cardinality(Changed(last.scene, last.from))
  /\ (last.pass /\ last.from = "dark" /\ last.scene = "head") =>
        {LastActive[k] : k \in DOMAIN LastActive} =
          {[x |-> c * 8, y |-> r * 8] : c \in 0 .. 8, r \in 0 .. 2}

\* A pass over a frame with a pixel at the threshold exactly (not active),
\* one just above it (active) and a lit block of 25 cells.
C15_Witness ==
  /\ last.pass /\ last.from = "dark" /\ last.scene = "weak"
  /\ Len(LastActive) = 26
  /\ \E k \in DOMAIN LastActive : LastActive[k] = [x |-> 176, y |-> 160]
  /\ \A k \in DOMAIN LastActive : LastActive[k] # [x |-> 160, y |-> 160]

C18_StopReleasesEverything ==
  gameState # "PLAYING" =>
    /\ ~requestRef
    /\ gumStale = 0 => openStreams = 0

\* C20: a run of gameLoop that finds the video not ready changes none of the
\* live targets, the counters, the cursor, the stored frame and the start
\* timestamp of the session clock, does not invoke onGameOver, and requests
\* the next frame.
C20_NotReadyTickIsNoop ==
  [][IdleTick =>
       /\ UNCHANGED <<enemies, statVars, cursor, prevFrameData>>
       /\ gameStartTime' = gameStartTime
       /\ Cur'.calls = Cur.calls /\ stats' = stats
       /\ requestRef'
    ]_vars

\* C19: whether the calls of the narrative service succeed or fail, briefing
\* and debrief always hold a string (the initial one, a generated text or
\* the fallback); in GAME_OVER the stats are set and REBOOT is available,
\* and leaving GAME_OVER leads to MENU with stats and debrief cleared; a
\* request is in flight whenever the loading flag is set, and the flag
\* always becomes false again; the first briefing arrives.
C19_NarrativeNeverBlocks ==
  /\ [](gameState = "GAME_OVER" => stats # << >>)
  /\ [](/\ briefing.kind \in {"initial", "generated", "fallback"}
        /\ debrief.kind \in {"empty", "generated", "fallback"})
  /\ [](isLoading => requests # {})
  /\ [](gameState = "GAME_OVER" => ENABLED Restart)
  /\ [][(gameState = "GAME_OVER" /\ gameState' # "GAME_OVER") =>
          (gameState' = "MENU" /\ stats' = << >> /\ debrief' = NoDebrief)]_vars
  /\ (isLoading ~> ~isLoading)
  /\ <>(briefing # InitialBriefing)

\* The debrief call of a finished session failed: the application is in
\* GAME_OVER with the stats set, the fallback text and the loading flag off.
C19_Witness ==
  /\ gameState = "GAME_OVER" /\ stats # << >>
  /\ debrief.kind = "fallback"
  /\ ~isLoading /\ requests = {}

\* C16: the stats a session without any motion hands to onGameOver after its
\* 60 seconds are score 0, headshots 0, bodyshots 0, enemiesDestroyed 0 and an
\* enemiesSpawned within 1 of floor(60000 / 1500) = 40.  (Under SteadySpec
\* every frame is dark: no pass of any session finds motion.)
C16_QuietSessionStats ==
  stats # << >> =>
    /\ stats[1][1] = 0 /\ stats[1][2] = 0 /\ stats[1][3] = 0 /\ stats[1][5] = 0
    /\ stats[1][4] \in 39 .. 41

\* Order and small differences of two-limb numbers.
Less(a, b) == a[1] < b[1] \/ (a[1] = b[1] /\ a[2] < b[2])
Minus(a, b) ==
  IF a[1] - b[1] > 1 THEN Limb
  ELSE IF b[1] - a[1] > 1 THEN 0 - Limb
  ELSE (a[1] - b[1]) * Limb + a[2] - b[2]
Twice(a) == Carry(a[1] + a[1], a[2] + a[2])
StrictlyBetween(q, c, p) == (Less(q, c) /\ Less(c, p)) \/ (Less(p, c) /\ Less(c, q))
Axes == {"x", "y"}
LastCentroid ==
  [x |-> Quotient(last.totals[1], last.totals[3]),
   y |-> Quotient(last.totals[2], last.totals[3])]
Smoothed == ticks > 0 /\ last.totals[3] > 0 /\ last.cursor # << >>

\* C13: a non-empty update with centroid P makes an absent cursor exactly P;
\* it moves a cursor at Q, on each axis, to the double nearest to (Q + P)/2:
\* never outside Q and P, within half a unit in the last place of the
\* midpoint, strictly between Q and P when they are two units or more apart,
\* and equal to Q or to P when they are neighbouring doubles.
C13_SmoothingNearestDouble ==
  (ticks > 0 /\ last.totals[3] > 0) =>
    /\ last.cursor = << >> => cursor = <<LastCentroid>>
    /\ last.cursor # << >> =>
         /\ cursor # << >>
         /\ \A a \in Axes :
              LET q == last.cursor[1][a]
                  p == LastCentroid[a]
                  c == cursor[1][a]
              IN  /\ Minus(Twice(c), Carry(q[1] + p[1], q[2] + p[2])) \in -1 .. 1
                  /\ StrictlyBetween(q, c, p) \/ c = q \/ c = p
                  /\ Abs(Minus(q, p)) >= 2 => StrictlyBetween(q, c, p)
                  /\ Abs(Minus(q, p)) = 1 => c \in {q, p}
                  /\ q = p => c = p

\* C13 as stated: on each axis where Q differs from P the new position lies
\* strictly between Q and P.
C13_SmoothingStrictlyBetween ==
  Smoothed =>
    \A a \in Axes :
      last.cursor[1][a] # LastCentroid[a] =>
        StrictlyBetween(last.cursor[1][a], cursor[1][a], LastCentroid[a])

\* C13 witness: an update has smoothed a cursor that was one unit in the last
\* place away from the centroid on the x axis, and an earlier kind of update
\* is covered by the same run (the cursor started absent).
C13_Witness ==
  /\ Smoothed
  /\ Abs(Minus(last.cursor[1].x, LastCentroid.x)) = 1
  /\ cursor[1].x \in {last.cursor[1].x, LastCentroid.x}

\* C21: after a tick on which the detector reports no motion (it stored a
\* baseline, the first one or one of another size, or its pass found no
\* active pixel) the cursor is absent.
C21_NoMotionCursorAbsent ==
  (last.ready /\ (~last.pass \/ LastActive = << >>)) => cursor = << >>

\* The hp a hit event left its target with.
HpAfter(ev) == IF ev.kind = "head" THEN 0 ELSE ev.hp - 1

\* C22: each bodyshot of a pass takes exactly 1 from its target's hp, adds
\* 1 to the score and 1 to bodyshots; enemiesDestroyed grows by one for each
\* hit of the pass that leaves its target at hp <= 0 and by nothing else; a
\* target hit by bodyshots only is destroyed by its third bodyshot, not
\* before and once; a hit of either kind leaves lastHitTime at the tick's
\* timestamp and isHit true.
C22_BodyshotEffects ==
  /\ \A ev \in BodyEvents :
       /\ Live(ev.uid) # {}
       /\ \A i \in Live(ev.uid) : enemies[i].hp = ev.hp - 1
  /\ \A ev \in last.events :
       \A i \in Live(ev.uid) :
         enemies[i].lastHitTime = now /\ enemies[i].isHit
  /\ score = last.before[1] + 3 * Cardinality(HeadEvents) + Cardinality(BodyEvents)
  /\ bodyshots = last.before[3] + Cardinality(BodyEvents)
  /\ enemiesDestroyed =
       last.before[5] + Cardinality({ev \in last.events : HpAfter(ev) <= 0})
  /\ \A u \in DOMAIN log :
       (\A k \in DOMAIN log[u].hits : log[u].hits[k].kind = "body") =>
          /\ Len(log[u].hits) <= 3
          /\ log[u].kills = IF Len(log[u].hits) = 3 THEN 1 ELSE 0

\* A target destroyed by its third bodyshot: at the tick of the hit its hp
\* went from 1 to 0 and enemiesDestroyed from 0 to 1, the score is 3.
C22_Witness ==
  /\ \E ev \in BodyEvents :
       /\ ev.hp = 1
       /\ Len(log[ev.uid].hits) = 3
       /\ \A k \in 1 .. 3 : log[ev.uid].hits[k].kind = "body"
       /\ \E i \in Live(ev.uid) : enemies[i].hp = 0 /\ enemies[i].isHit
  /\ last.before[5] = 0 /\ enemiesDestroyed = 1
  /\ score = 3 /\ bodyshots = 3

\* C23: an advance at time t spawns a target iff t - lastSpawnTime > 1500,
\* and then exactly one, with spawnTime t and maxHp 3, and with hp 3,
\* lastHitTime 0 and isHit false (the hp the collision pass of the same tick
\* found, if it hit the new target at once); enemiesSpawned grows by 1 and
\* lastSpawnTime becomes t; an advance that does not spawn adds no target
\* and changes neither.  Hence the live targets were spawned more than
\* 1500 ms apart, the latest at lastSpawnTime, and enemiesSpawned is the
\* number of targets created in the session.
C23_SpawnRule ==
  /\ [](/\ enemiesSpawned = Len(log)
        /\ \A i \in DOMAIN enemies :
             /\ enemies[i].maxHp = 3
             /\ enemies[i].uid \in 1 .. enemiesSpawned
             /\ enemies[i].uid = enemiesSpawned =>
                  enemies[i].spawnTime = lastSpawnTime
             /\ log[enemies[i].uid].hits = << >> =>
                  /\ enemies[i].hp = 3
                  /\ enemies[i].lastHitTime = 0
                  /\ ~enemies[i].isHit
        /\ \A i, j \in DOMAIN enemies :
             i < j => enemies[j].spawnTime - enemies[i].spawnTime > 1500)
  /\ [][ReadyTick =>
         IF now' - lastSpawnTime > 1500
         THEN /\ enemiesSpawned' = enemiesSpawned + 1
              /\ lastSpawnTime' = now'
              /\ Uids(enemies') \ Uids(enemies) = {enemiesSpawned'}
              /\ Len(enemies') <= Len(enemies) + 1
              /\ \A i \in DOMAIN enemies' :
                   enemies'[i].uid = enemiesSpawned' =>
                     /\ enemies'[i].spawnTime = now'
                     /\ enemies'[i].maxHp = 3
                     /\ \A ev \in last'.events :
                          ev.uid = enemiesSpawned' => ev.hp = 3
                     /\ (\A ev \in last'.events : ev.uid # enemiesSpawned') =>
                          /\ enemies'[i].hp = 3
                          /\ enemies'[i].lastHitTime = 0
                          /\ ~enemies'[i].isHit
         ELSE /\ enemiesSpawned' = enemiesSpawned
              /\ lastSpawnTime' = lastSpawnTime
              /\ Uids(enemies') \subseteq Uids(enemies)
       ]_vars

\* Two spawns 1600 ms apart, the frame exactly 1500 ms after the first
\* having spawned nothing; the second target was hit on the tick of its
\* creation.
C23_Witness ==
  /\ enemiesSpawned = 2 /\ Len(enemies) = 2
  /\ enemies[2].spawnTime - enemies[1].spawnTime = 1600
  /\ ticks = 4
  /\ \E ev \in last.events : ev.uid = 2 /\ ev.hp = 3

\* C24: in every state score = 3 * headshots + bodyshots and
\* headshots <= enemiesDestroyed <= enemiesSpawned.
C24_CountersAgree ==
  /\ score = 3 * headshots + bodyshots
  /\ headshots <= enemiesDestroyed
  /\ enemiesDestroyed <= enemiesSpawned

\* Two bodyshots and then a headshot on the only target spawned.
C24_Witness ==
  /\ headshots = 1 /\ bodyshots = 2 /\ score = 5
  /\ enemiesDestroyed = 1 /\ enemiesSpawned = 1

\* C25: the live set holds at most 4 targets (it changes at an advance only,
\* and timestamps never decrease).
C25_AtMostFourLive == Len(enemies) <= 4

\* Four live targets after the advance that spawned the fifth: the first
\* one, older than 5000 ms, was removed by it.
C25_Witness ==
  /\ Len(enemies) = 4
  /\ enemiesSpawned = 5
  /\ enemies[4].spawnTime = now
  /\ now - enemies[1].spawnTime <= 5000

\* C26: in GAME_OVER with isLoading false the debrief shown is the answer to
\* the request of the session whose stats are shown: that request is no
\* longer in flight, and a generated text was generated from these stats.
C26_DebriefOfShownStats ==
  (gameState = "GAME_OVER" /\ ~isLoading) =>
    /\ stats # << >>
    /\ debrief # NoDebrief
    /\ debrief.kind = "generated" => debrief.of = stats[1]
    /\ \A r \in requests : r[1] # Len(sessions)

====
